---- MODULE Spec2Model ----
(***************************************************************************)
(* A model of easylimit's RateLimiter (src/src/easylimit/rate_limiter.py): *)
(* the token bucket, its reentrant lock and the threads that call          *)
(* acquire, try_acquire, available_tokens and __enter__ on one shared      *)
(* limiter.                                                                *)
(*                                                                         *)
(* Representation of the floats of the source:                             *)
(*   - time is counted in ticks of 50 ms, so one second is OneSecond ticks *)
(*     and the 0.1 s polling ceiling of acquire is PollCeiling ticks;      *)
(*   - a token amount is counted in units, ONE units to the token, chosen  *)
(*     so that every rate of the model is a whole number of units a tick   *)
(*     (max_calls_per_second is held in units per tick);                   *)
(*   - float("inf") is Inf, and NaN (inf - inf, 0 * inf) is NaN.           *)
(***************************************************************************)
EXTENDS Integers, Sequences, FiniteSets, TLC

VARIABLES
    max_calls_per_second,  \* self.max_calls_per_second, units per tick
    bucket_size,           \* self.bucket_size, units
    tokens,                \* self.tokens, units
    last_refill,           \* self.last_refill, ticks
    lock,                  \* self.lock, an RLock: [owner, count]
    now,                   \* the reading of time.time(), ticks
    pc,                    \* per thread: where it stands in its call
    op,                    \* per thread: the public operation it is in
    start_time,            \* per thread: acquire's local start_time
    timeout,               \* per thread: acquire's argument, None or <<t>>
    wake_at,               \* per thread: when its time.sleep ends
    granted,               \* history: number of True results so far
    calls,                 \* history: completed calls per thread (scenarios)
    emptied_at,            \* history: when the balance was taken to 0, or None
    last_seen,             \* history: the last result of available_tokens()
                           \* since the last grant, or None
    ctor_call,             \* history: the constructor call that was made and
                           \* what it raised (scenarios), or None
    held_on_entry,         \* history, per thread: how often it held the
                           \* lock when it entered its call
    outcome,               \* history: what the last tracking accessor
                           \* returned or raised, or None
    shadow,                \* history: tokens and last_refill of the same
                           \* bucket without call tracking, or None
    track_calls,           \* self._track_calls
    history_window,        \* self._history_window, ticks
    call_count,            \* self._call_count
    timestamps,            \* self._timestamps, a sequence of times
    delays,                \* self._delays, a sequence of durations
    tracking_start_time,   \* self._start_time, None or <<time>>
    last_call_time,        \* self._last_call_time, None or <<time>>
    count_read             \* per thread: the _call_count its += 1 has read

vars == <<max_calls_per_second, bucket_size, tokens, last_refill, lock, now,
          pc, op, start_time, timeout, wake_at, granted, calls, emptied_at,
          last_seen, ctor_call, held_on_entry, outcome, shadow, track_calls,
          history_window, call_count, timestamps, delays,
          tracking_start_time, last_call_time, count_read>>

bucket == <<max_calls_per_second, bucket_size, tokens, last_refill>>
locals == <<start_time, timeout, wake_at>>
hist == <<calls, emptied_at, last_seen, ctor_call, held_on_entry, outcome,
         shadow>>
tracking == <<track_calls, history_window, call_count, timestamps, delays,
              tracking_start_time, last_call_time, count_read>>

----------------------------------------------------------------------------
(* Bounds of the model *)

NumThreads == 2
MaxTime == 4
MaxGrants == 3
MaxCalls == 2
MaxWait == 10

\* how often a caller takes the lock itself around its calls
MaxHold == 1

Threads == 1..NumThreads

----------------------------------------------------------------------------
(* Units *)

\* timedelta(seconds=1), the default period, in ticks
OneSecond == 20
\* one token, in units: a rate of half a call per second is one unit a tick
ONE == 2 * OneSecond
\* the 0.1 of min(time_to_next_token, 0.1), in ticks
PollCeiling == OneSecond \div 10

\* history_window_seconds: int = 3600, in ticks
DefaultHistoryWindow == 3600 * OneSecond

\* float("inf")
Inf == -1
NaN == Inf - 1

None == << >>
Some(x) == <<x>>

IsFinite(x) == x # Inf /\ x # NaN

\* IEEE arithmetic on the values the limiter computes with
FAdd(a, b) ==
    IF a = NaN \/ b = NaN THEN NaN
    ELSE IF a = Inf \/ b = Inf THEN Inf
    ELSE a + b

\* a - b for a finite b
FSub(a, b) ==
    IF a = NaN \/ b = NaN THEN NaN
    ELSE IF a = Inf /\ b = Inf THEN NaN
    ELSE IF a = Inf THEN Inf
    ELSE a - b

\* elapsed * rate for a finite elapsed
FMul(elapsed, rate) ==
    IF rate = NaN THEN NaN
    ELSE IF rate = Inf THEN (IF elapsed = 0 THEN NaN ELSE Inf)
    ELSE elapsed * rate

FLess(a, b) ==
    IF a = NaN \/ b = NaN THEN FALSE
    ELSE IF a = Inf THEN FALSE
    ELSE IF b = Inf THEN TRUE
    ELSE a < b

FGe(a, b) ==
    IF a = NaN \/ b = NaN THEN FALSE
    ELSE IF a = Inf THEN TRUE
    ELSE IF b = Inf THEN FALSE
    ELSE a >= b

\* Python's min(a, b): a, unless b < a
FMin(a, b) == IF FLess(b, a) THEN b ELSE a

CeilDiv(a, b) == (a + b - 1) \div b

----------------------------------------------------------------------------
(* Construction *)

\* mutant: a call count of zero passes the validation
RateLimiterInitZeroLimit(mcps, limit, period) ==
    IF mcps # None
    THEN IF limit # None \/ period # None
         THEN [ok |-> FALSE, error |-> "Cannot specify both max_calls_per_second and limit/period"]
         ELSE IF mcps[1] <= 0
         THEN [ok |-> FALSE, error |-> "max_calls_per_second must be positive"]
         ELSE [ok |-> TRUE, max_calls_per_second |-> mcps[1],
               bucket_size |-> mcps[1] * OneSecond,
               tokens |-> mcps[1] * OneSecond]
    ELSE IF limit # None
    THEN LET effective_period == IF period # None THEN period[1] ELSE OneSecond
         IN IF limit[1] < 0
            THEN [ok |-> FALSE, error |-> "limit must be positive"]
            ELSE IF effective_period <= 0
            THEN [ok |-> FALSE, error |-> "period must be positive"]
            ELSE [ok |-> TRUE,
                  max_calls_per_second |-> (limit[1] * ONE) \div effective_period,
                  bucket_size |-> limit[1] * ONE,
                  tokens |-> limit[1] * ONE]
    ELSE IF period = None
    THEN [ok |-> TRUE, max_calls_per_second |-> ONE \div OneSecond,
          bucket_size |-> ONE, tokens |-> ONE]
    ELSE [ok |-> FALSE, error |-> "Must specify limit when providing period, or use max_calls_per_second"]

\* mutant: a period without a call count falls back to the default bucket
RateLimiterInitPeriodAlone(mcps, limit, period) ==
    IF mcps # None
    THEN IF limit # None \/ period # None
         THEN [ok |-> FALSE, error |-> "Cannot specify both max_calls_per_second and limit/period"]
         ELSE IF mcps[1] <= 0
         THEN [ok |-> FALSE, error |-> "max_calls_per_second must be positive"]
         ELSE [ok |-> TRUE, max_calls_per_second |-> mcps[1],
               bucket_size |-> mcps[1] * OneSecond,
               tokens |-> mcps[1] * OneSecond]
    ELSE IF limit # None
    THEN LET effective_period == IF period # None THEN period[1] ELSE OneSecond
         IN IF limit[1] <= 0
            THEN [ok |-> FALSE, error |-> "limit must be positive"]
            ELSE IF effective_period <= 0
            THEN [ok |-> FALSE, error |-> "period must be positive"]
            ELSE [ok |-> TRUE,
                  max_calls_per_second |-> (limit[1] * ONE) \div effective_period,
                  bucket_size |-> limit[1] * ONE,
                  tokens |-> limit[1] * ONE]
    ELSE [ok |-> TRUE, max_calls_per_second |-> ONE \div OneSecond,
          bucket_size |-> ONE, tokens |-> ONE]

\* mutant: the period-based bucket holds one second of calls, as the
\* legacy one does, instead of the call count
RateLimiterInitRateBucket(mcps, limit, period) ==
    IF mcps # None
    THEN IF limit # None \/ period # None
         THEN [ok |-> FALSE, error |-> "Cannot specify both max_calls_per_second and limit/period"]
         ELSE IF mcps[1] <= 0
         THEN [ok |-> FALSE, error |-> "max_calls_per_second must be positive"]
         ELSE [ok |-> TRUE, max_calls_per_second |-> mcps[1],
               bucket_size |-> mcps[1] * OneSecond,
               tokens |-> mcps[1] * OneSecond]
    ELSE IF limit # None
    THEN LET effective_period == IF period # None THEN period[1] ELSE OneSecond
         IN IF limit[1] <= 0
            THEN [ok |-> FALSE, error |-> "limit must be positive"]
            ELSE IF effective_period <= 0
            THEN [ok |-> FALSE, error |-> "period must be positive"]
            ELSE [ok |-> TRUE,
                  max_calls_per_second |-> (limit[1] * ONE) \div effective_period,
                  bucket_size |-> ((limit[1] * ONE) \div effective_period) * OneSecond,
                  tokens |-> ((limit[1] * ONE) \div effective_period) * OneSecond]
    ELSE IF period = None
    THEN [ok |-> TRUE, max_calls_per_second |-> ONE \div OneSecond,
          bucket_size |-> ONE, tokens |-> ONE]
    ELSE [ok |-> FALSE, error |-> "Must specify limit when providing period, or use max_calls_per_second"]

\* RateLimiter.__init__: the configuration it accepts and the bucket it
\* builds, or the ValueError it raises.  mcps is in units per tick, limit
\* in calls, period in ticks; each is None or Some(value).
RateLimiterInit(mcps, limit, period) ==
    IF mcps # None
    THEN IF limit # None \/ period # None
         THEN [ok |-> FALSE, error |-> "Cannot specify both max_calls_per_second and limit/period"]
         ELSE IF mcps[1] <= 0
         THEN [ok |-> FALSE, error |-> "max_calls_per_second must be positive"]
         ELSE [ok |-> TRUE, max_calls_per_second |-> mcps[1],
               bucket_size |-> mcps[1] * OneSecond,
               tokens |-> mcps[1] * OneSecond]
    ELSE IF limit # None
    THEN LET effective_period == IF period # None THEN period[1] ELSE OneSecond
         IN IF limit[1] <= 0
            THEN [ok |-> FALSE, error |-> "limit must be positive"]
            ELSE IF effective_period <= 0
            THEN [ok |-> FALSE, error |-> "period must be positive"]
            ELSE [ok |-> TRUE,
                  max_calls_per_second |-> (limit[1] * ONE) \div effective_period,
                  bucket_size |-> limit[1] * ONE,
                  tokens |-> limit[1] * ONE]
    ELSE IF period = None
    THEN [ok |-> TRUE, max_calls_per_second |-> ONE \div OneSecond,
          bucket_size |-> ONE, tokens |-> ONE]
    ELSE [ok |-> FALSE, error |-> "Must specify limit when providing period, or use max_calls_per_second"]

\* mutant: unlimited() without the override of bucket_size
unlimitedFiniteSize ==
    LET limiter == RateLimiterInit(None, Some(1), Some(OneSecond))
    IN [limiter EXCEPT !.max_calls_per_second = Inf, !.tokens = Inf]

\* RateLimiter.unlimited: a valid limiter with its internals overridden
unlimited ==
    LET limiter == RateLimiterInit(None, Some(1), Some(OneSecond))
    IN [limiter EXCEPT !.max_calls_per_second = Inf, !.bucket_size = Inf,
                       !.tokens = Inf]

\* The arguments the model constructs limiters from: the legacy rates
\* 0.5/s and 1.5/s, one or two calls per second or per 0.1 s, and nothing.
LegacyRates == {1, 3}
Limits == {1, 2}
Periods == {OneSecond \div 10}

CtorArgs ==
    {<<None, None, None>>}
        \cup {<<Some(m), None, None>> : m \in LegacyRates}
        \cup {<<None, Some(l), Some(p)>> : l \in Limits, p \in Periods}

\* The limiters a caller can hold: every accepted construction, and unlimited()
Limiters ==
    {RateLimiterInit(a[1], a[2], a[3]) : a \in CtorArgs} \cup {unlimited}

----------------------------------------------------------------------------
(* The bucket *)

\* mutant: the refill without its cap at bucket_size
RefillTokensUncapped(tok, last, rate, size, clock) ==
    LET elapsed == clock - last
    IN IF elapsed > 0
       THEN [tokens |-> FAdd(tok, FMul(elapsed, rate)), last_refill |-> clock]
       ELSE [tokens |-> tok, last_refill |-> last]

\* mutant: the refill adds the tokens and leaves last_refill where it was
RefillTokensKeepsClock(tok, last, rate, size, clock) ==
    LET elapsed == clock - last
    IN IF elapsed > 0
       THEN [tokens |-> FMin(size, FAdd(tok, FMul(elapsed, rate))),
             last_refill |-> last]
       ELSE [tokens |-> tok, last_refill |-> last]

\* mutant: the refill forgets the balance it had
RefillTokensForgets(tok, last, rate, size, clock) ==
    LET elapsed == clock - last
    IN IF elapsed > 0
       THEN [tokens |-> FMin(size, FMul(elapsed, rate)), last_refill |-> clock]
       ELSE [tokens |-> tok, last_refill |-> last]

\* mutant: the refill follows the clock when it reads earlier
RefillTokensFollowsClock(tok, last, rate, size, clock) ==
    LET elapsed == clock - last
    IN IF elapsed > 0
       THEN [tokens |-> FMin(size, FAdd(tok, FMul(elapsed, rate))),
             last_refill |-> clock]
       ELSE [tokens |-> tok, last_refill |-> clock]

\* RateLimiter._refill_tokens with time.time() reading clock
RefillTokens(tok, last, rate, size, clock) ==
    LET elapsed == clock - last
    IN IF elapsed > 0
       THEN [tokens |-> FMin(size, FAdd(tok, FMul(elapsed, rate))),
             last_refill |-> clock]
       ELSE [tokens |-> tok, last_refill |-> last]

\* the bucket after self._refill_tokens() now
Refilled == RefillTokens(tokens, last_refill, max_calls_per_second, bucket_size, now)

\* mutant: any positive balance counts as a token
HasTokenAnyBalance(tok) == FLess(0, tok)

\* mutant: a balance of exactly one token does not count
HasTokenStrict(tok) == FLess(ONE, tok)

\* if self.tokens >= 1
HasToken(tok) == FGe(tok, ONE)

\* mutant: a grant empties the bucket
TakeTokenAll(tok) == IF IsFinite(tok) THEN 0 ELSE tok

\* self.tokens -= 1
TakeToken(tok) == FSub(tok, ONE)

\* mutant: the timeout has to be exceeded, not reached
TimedOutLate(to, start, clock) == to # None /\ clock - start > to[1]

\* if timeout is not None: elapsed = time.time() - start_time;
\* if elapsed >= timeout: return False
TimedOut(to, start, clock) == to # None /\ clock - start >= to[1]

\* sleep_time = min(1.0 / self.max_calls_per_second, 0.1), in ticks
SleepTime(rate) ==
    IF rate = Inf THEN 0
    ELSE LET time_to_next_token == CeilDiv(ONE, rate)
         IN IF time_to_next_token < PollCeiling THEN time_to_next_token ELSE PollCeiling

----------------------------------------------------------------------------
(* The lock: threading.RLock *)

\* mutant: a lock that excludes nobody
LockFreeAlways(t) == TRUE

\* whether thread t can take the lock: it is free, or t owns it already
LockFree(t) == lock.owner \in {0, t}

\* self.lock.acquire() / entering "with self.lock" by thread t
LockAcquire(t) == [owner |-> t, count |-> lock.count + 1]

\* self.lock.release() / leaving "with self.lock" by thread t
LockRelease(t) ==
    IF lock.count <= 1 THEN [owner |-> 0, count |-> 0]
    ELSE [owner |-> lock.owner, count |-> lock.count - 1]

----------------------------------------------------------------------------
(* Initial state: a limiter just constructed at time 0, all threads idle *)

Init ==
    /\ \E limiter \in Limiters :
          /\ limiter.ok
          /\ max_calls_per_second = limiter.max_calls_per_second
          /\ bucket_size = limiter.bucket_size
          /\ tokens = limiter.tokens
    /\ last_refill = 0
    /\ now = 0
    /\ lock = [owner |-> 0, count |-> 0]
    /\ pc = [t \in Threads |-> "idle"]
    /\ op = [t \in Threads |-> "none"]
    /\ start_time = [t \in Threads |-> 0]
    /\ timeout = [t \in Threads |-> None]
    /\ wake_at = [t \in Threads |-> 0]
    /\ granted = 0
    /\ calls = [t \in Threads |-> 0]
    /\ emptied_at = None
    /\ last_seen = None
    /\ ctor_call = None
    /\ held_on_entry = [t \in Threads |-> 0]
    /\ outcome = None
    /\ shadow = None
    /\ track_calls = FALSE
    /\ history_window = DefaultHistoryWindow
    /\ call_count = 0
    /\ timestamps = << >>
    /\ delays = << >>
    /\ tracking_start_time = None
    /\ last_call_time = None
    /\ count_read = [t \in Threads |-> 0]

----------------------------------------------------------------------------
(* The operations, one action per step a thread takes *)

Timeouts == {None, Some(0), Some(3)}

\* thread t returns from its call: its locals are gone
Return(t) ==
    /\ pc' = [pc EXCEPT ![t] = "idle"]
    /\ op' = [op EXCEPT ![t] = "none"]
    /\ start_time' = [start_time EXCEPT ![t] = 0]
    /\ timeout' = [timeout EXCEPT ![t] = None]
    /\ wake_at' = [wake_at EXCEPT ![t] = 0]

\* __enter__ after self.acquire(): return self, the body of the with
\* statement runs
EnterBody(t) ==
    /\ pc' = [pc EXCEPT ![t] = "body"]
    /\ start_time' = [start_time EXCEPT ![t] = 0]
    /\ timeout' = [timeout EXCEPT ![t] = None]
    /\ wake_at' = [wake_at EXCEPT ![t] = 0]
    /\ UNCHANGED op

\* __enter__ after self.acquire() when self._track_calls: on to
\* "with self.lock", the start_time of __enter__ still in hand
EnterTracked(t) ==
    /\ pc' = [pc EXCEPT ![t] = "enter_track_lock"]
    /\ timeout' = [timeout EXCEPT ![t] = None]
    /\ wake_at' = [wake_at EXCEPT ![t] = 0]
    /\ UNCHANGED <<op, start_time>>

\* mutant: acquire sleeps without releasing the lock
SleepLockKept(t) == lock

\* the lock as acquire leaves it for its sleep: self.lock.release()
SleepLock(t) == LockRelease(t)

\* mutant: acquire goes on after its sleep without the lock
WakeLockSkipped(t) == lock

\* the lock as acquire holds it again after its sleep: self.lock.acquire()
WakeLock(t) == LockAcquire(t)

\* acquire(timeout): start_time = time.time()
CallAcquire(t, to) ==
    /\ pc[t] = "idle"
    /\ granted < MaxGrants
    /\ pc' = [pc EXCEPT ![t] = "acquire_lock"]
    /\ op' = [op EXCEPT ![t] = "acquire"]
    /\ start_time' = [start_time EXCEPT ![t] = now]
    /\ timeout' = [timeout EXCEPT ![t] = to]
    /\ UNCHANGED <<bucket, lock, now, wake_at, granted>>

\* __enter__: start_time = time.time(); self.acquire()
CallEnter(t) ==
    /\ pc[t] = "idle"
    /\ granted < MaxGrants
    /\ pc' = [pc EXCEPT ![t] = "acquire_lock"]
    /\ op' = [op EXCEPT ![t] = "enter"]
    /\ start_time' = [start_time EXCEPT ![t] = now]
    /\ timeout' = [timeout EXCEPT ![t] = None]
    /\ UNCHANGED <<bucket, lock, now, wake_at, granted>>

\* acquire: with self.lock
AcquireLock(t) ==
    /\ pc[t] = "acquire_lock"
    /\ LockFree(t)
    /\ lock' = LockAcquire(t)
    /\ pc' = [pc EXCEPT ![t] = "acquire_loop"]
    /\ UNCHANGED <<bucket, now, op, locals, granted>>

\* mutant: acquire grants in the order of arrival: a caller leaves the
\* token to a caller that has been blocked for longer
AcquireLoopFifo(t) ==
    /\ pc[t] = "acquire_loop"
    /\ LET refilled == Refilled
           first == \A u \in Threads \ {t} :
                       ~(pc[u] = "acquire_sleep" /\ start_time[u] < start_time[t])
       IN /\ last_refill' = refilled.last_refill
          /\ tokens' = refilled.tokens
          /\ IF HasToken(refilled.tokens) /\ first
             THEN /\ pc' = [pc EXCEPT ![t] = "acquire_take"]
                  /\ UNCHANGED <<lock, op, locals>>
             ELSE IF TimedOut(timeout[t], start_time[t], now)
             THEN /\ Return(t)
                  /\ lock' = LockRelease(t)
             ELSE /\ lock' = SleepLock(t)
                  /\ wake_at' = [wake_at EXCEPT ![t] = now + SleepTime(max_calls_per_second)]
                  /\ pc' = [pc EXCEPT ![t] = "acquire_sleep"]
                  /\ UNCHANGED <<op, start_time, timeout>>
    /\ UNCHANGED <<max_calls_per_second, bucket_size, now, granted>>

\* mutant: acquire takes its token before the test and keeps it on timeout
AcquireLoopEager(t) ==
    /\ pc[t] = "acquire_loop"
    /\ LET refilled == Refilled
       IN /\ last_refill' = refilled.last_refill
          /\ IF HasToken(refilled.tokens)
             THEN /\ tokens' = refilled.tokens
                  /\ pc' = [pc EXCEPT ![t] = "acquire_take"]
                  /\ UNCHANGED <<lock, op, locals>>
             ELSE IF TimedOut(timeout[t], start_time[t], now)
             THEN /\ tokens' = TakeToken(refilled.tokens)
                  /\ Return(t)
                  /\ lock' = LockRelease(t)
             ELSE /\ tokens' = refilled.tokens
                  /\ lock' = SleepLock(t)
                  /\ wake_at' = [wake_at EXCEPT ![t] = now + SleepTime(max_calls_per_second)]
                  /\ pc' = [pc EXCEPT ![t] = "acquire_sleep"]
                  /\ UNCHANGED <<op, start_time, timeout>>
    /\ UNCHANGED <<max_calls_per_second, bucket_size, now, granted>>

\* mutant: acquire looks at its deadline before it looks for a token
AcquireLoopDeadlineFirst(t) ==
    /\ pc[t] = "acquire_loop"
    /\ LET refilled == Refilled
       IN /\ last_refill' = refilled.last_refill
          /\ tokens' = refilled.tokens
          /\ IF TimedOut(timeout[t], start_time[t], now)
             THEN /\ Return(t)
                  /\ lock' = LockRelease(t)
             ELSE IF HasToken(refilled.tokens)
             THEN /\ pc' = [pc EXCEPT ![t] = "acquire_take"]
                  /\ UNCHANGED <<lock, op, locals>>
             ELSE /\ lock' = SleepLock(t)
                  /\ wake_at' = [wake_at EXCEPT ![t] = now + SleepTime(max_calls_per_second)]
                  /\ pc' = [pc EXCEPT ![t] = "acquire_sleep"]
                  /\ UNCHANGED <<op, start_time, timeout>>
    /\ UNCHANGED <<max_calls_per_second, bucket_size, now, granted>>

\* acquire: one turn of "while True", from the refill to the test of the
\* balance, the return on timeout or the start of the sleep
AcquireLoop(t) ==
    /\ pc[t] = "acquire_loop"
    /\ LET refilled == Refilled
       IN /\ last_refill' = refilled.last_refill
          /\ tokens' = refilled.tokens
          /\ IF HasToken(refilled.tokens)
             THEN /\ pc' = [pc EXCEPT ![t] = "acquire_take"]
                  /\ UNCHANGED <<lock, op, locals>>
             ELSE IF TimedOut(timeout[t], start_time[t], now)
             THEN /\ Return(t)
                  /\ lock' = LockRelease(t)
             ELSE /\ lock' = SleepLock(t)
                  /\ wake_at' = [wake_at EXCEPT ![t] = now + SleepTime(max_calls_per_second)]
                  /\ pc' = [pc EXCEPT ![t] = "acquire_sleep"]
                  /\ UNCHANGED <<op, start_time, timeout>>
    /\ UNCHANGED <<max_calls_per_second, bucket_size, now, granted>>

\* acquire: self.tokens -= 1; return True
AcquireTake(t) ==
    /\ pc[t] = "acquire_take"
    /\ tokens' = TakeToken(tokens)
    /\ IF op[t] = "enter"
       THEN IF track_calls THEN EnterTracked(t) ELSE EnterBody(t)
       ELSE Return(t)
    /\ lock' = LockRelease(t)
    /\ granted' = granted + 1
    /\ UNCHANGED <<max_calls_per_second, bucket_size, last_refill, now>>

\* acquire: time.sleep(sleep_time) is over; self.lock.acquire()
AcquireWake(t) ==
    /\ pc[t] = "acquire_sleep"
    /\ now >= wake_at[t]
    /\ LockFree(t)
    /\ lock' = WakeLock(t)
    /\ pc' = [pc EXCEPT ![t] = "acquire_loop"]
    /\ UNCHANGED <<bucket, now, op, locals, granted>>

\* try_acquire: with self.lock
TryAcquireLock(t) ==
    /\ pc[t] = "idle"
    /\ granted < MaxGrants
    /\ LockFree(t)
    /\ lock' = LockAcquire(t)
    /\ pc' = [pc EXCEPT ![t] = "try_acquire_body"]
    /\ op' = [op EXCEPT ![t] = "try_acquire"]
    /\ UNCHANGED <<bucket, now, locals, granted>>

\* mutant: try_acquire takes its token before the test
TryAcquireBodyEager(t) ==
    /\ pc[t] = "try_acquire_body"
    /\ LET refilled == Refilled
       IN /\ last_refill' = refilled.last_refill
          /\ IF HasToken(refilled.tokens)
             THEN /\ tokens' = refilled.tokens
                  /\ pc' = [pc EXCEPT ![t] = "try_acquire_take"]
                  /\ UNCHANGED <<lock, op, locals>>
             ELSE /\ tokens' = TakeToken(refilled.tokens)
                  /\ Return(t)
                  /\ lock' = LockRelease(t)
    /\ UNCHANGED <<max_calls_per_second, bucket_size, now, granted>>

\* try_acquire: the refill and the test of the balance; return False
TryAcquireBody(t) ==
    /\ pc[t] = "try_acquire_body"
    /\ LET refilled == Refilled
       IN /\ last_refill' = refilled.last_refill
          /\ tokens' = refilled.tokens
          /\ IF HasToken(refilled.tokens)
             THEN /\ pc' = [pc EXCEPT ![t] = "try_acquire_take"]
                  /\ UNCHANGED <<lock, op, locals>>
             ELSE /\ Return(t)
                  /\ lock' = LockRelease(t)
    /\ UNCHANGED <<max_calls_per_second, bucket_size, now, granted>>

\* try_acquire: self.tokens -= 1; return True
TryAcquireTake(t) ==
    /\ pc[t] = "try_acquire_take"
    /\ tokens' = TakeToken(tokens)
    /\ Return(t)
    /\ lock' = LockRelease(t)
    /\ granted' = granted + 1
    /\ UNCHANGED <<max_calls_per_second, bucket_size, last_refill, now>>

\* mutant: __exit__ gives the token back when the body raised
ExitReturnsToken(t, raised) ==
    /\ pc[t] = "body"
    /\ pc' = [pc EXCEPT ![t] = "idle"]
    /\ op' = [op EXCEPT ![t] = "none"]
    /\ tokens' = IF raised THEN FMin(bucket_size, FAdd(tokens, ONE)) ELSE tokens
    /\ UNCHANGED <<max_calls_per_second, bucket_size, last_refill, lock, now,
                   locals, granted>>

\* __exit__(exc_type, exc_val, exc_tb): pass; the body ended normally or
\* raised, and an exception goes on to the caller
Exit(t, raised) ==
    /\ pc[t] = "body"
    /\ pc' = [pc EXCEPT ![t] = "idle"]
    /\ op' = [op EXCEPT ![t] = "none"]
    /\ UNCHANGED <<bucket, lock, now, locals, granted>>

\* available_tokens: with self.lock
AvailableTokensLock(t) ==
    /\ pc[t] = "idle"
    /\ LockFree(t)
    /\ lock' = LockAcquire(t)
    /\ pc' = [pc EXCEPT ![t] = "available_tokens_body"]
    /\ op' = [op EXCEPT ![t] = "available_tokens"]
    /\ UNCHANGED <<bucket, now, locals, granted>>

\* available_tokens: self._refill_tokens(); return self.tokens
AvailableTokensBody(t) ==
    /\ pc[t] = "available_tokens_body"
    /\ LET refilled == Refilled
       IN /\ last_refill' = refilled.last_refill
          /\ tokens' = refilled.tokens
    /\ Return(t)
    /\ lock' = LockRelease(t)
    /\ UNCHANGED <<max_calls_per_second, bucket_size, now, granted>>

\* a thread that can take a step of computation now: a step takes no time
\* at the resolution of the clock, a sleep and a wait for the lock do
Running(t) ==
    \/ pc[t] \in {"acquire_loop", "acquire_take", "try_acquire_body",
                  "try_acquire_take", "available_tokens_body"}
    \/ (pc[t] = "acquire_lock" /\ LockFree(t))
    \/ pc[t] = "enter_track_body"
    \/ (pc[t] = "enter_track_lock" /\ LockFree(t))

\* time passes: one tick of the clock, while no thread is computing (a
\* sleeping thread may sleep longer than its sleep_time)
Tick ==
    /\ now < MaxTime
    /\ \A t \in Threads : ~Running(t)
    /\ now' = now + 1
    /\ UNCHANGED <<bucket, lock, pc, op, locals, granted>>

\* Any number of calls by any thread at any time
Next ==
    \/ \E t \in Threads, to \in Timeouts : CallAcquire(t, to) /\ UNCHANGED <<hist, tracking>>
    \/ \E t \in Threads : CallEnter(t) /\ UNCHANGED <<hist, tracking>>
    \/ \E t \in Threads : AcquireLock(t) /\ UNCHANGED <<hist, tracking>>
    \/ \E t \in Threads : AcquireLoop(t) /\ UNCHANGED <<hist, tracking>>
    \/ \E t \in Threads : AcquireTake(t) /\ UNCHANGED <<hist, tracking>>
    \/ \E t \in Threads : AcquireWake(t) /\ UNCHANGED <<hist, tracking>>
    \/ \E t \in Threads, raised \in BOOLEAN : Exit(t, raised) /\ UNCHANGED <<hist, tracking>>
    \/ \E t \in Threads : TryAcquireLock(t) /\ UNCHANGED <<hist, tracking>>
    \/ \E t \in Threads : TryAcquireBody(t) /\ UNCHANGED <<hist, tracking>>
    \/ \E t \in Threads : TryAcquireTake(t) /\ UNCHANGED <<hist, tracking>>
    \/ \E t \in Threads : AvailableTokensLock(t) /\ UNCHANGED <<hist, tracking>>
    \/ \E t \in Threads : AvailableTokensBody(t) /\ UNCHANGED <<hist, tracking>>
    \/ Tick /\ UNCHANGED <<hist, tracking>>

Spec == Init /\ [][Next]_vars

----------------------------------------------------------------------------
(* Exact sleeps: time.sleep(sleep_time) lasts sleep_time and no longer *)

Due(t) == pc[t] = "acquire_sleep" /\ now >= wake_at[t] /\ LockFree(t)

TickExact ==
    /\ \A t \in Threads : ~Due(t)
    /\ Tick

NextTimed ==
    \/ \E t \in Threads, to \in Timeouts : CallAcquire(t, to) /\ UNCHANGED <<hist, tracking>>
    \/ \E t \in Threads : CallEnter(t) /\ UNCHANGED <<hist, tracking>>
    \/ \E t \in Threads : AcquireLock(t) /\ UNCHANGED <<hist, tracking>>
    \/ \E t \in Threads : AcquireLoop(t) /\ UNCHANGED <<hist, tracking>>
    \/ \E t \in Threads : AcquireTake(t) /\ UNCHANGED <<hist, tracking>>
    \/ \E t \in Threads : AcquireWake(t) /\ UNCHANGED <<hist, tracking>>
    \/ \E t \in Threads, raised \in BOOLEAN : Exit(t, raised) /\ UNCHANGED <<hist, tracking>>
    \/ \E t \in Threads : TryAcquireLock(t) /\ UNCHANGED <<hist, tracking>>
    \/ \E t \in Threads : TryAcquireBody(t) /\ UNCHANGED <<hist, tracking>>
    \/ \E t \in Threads : TryAcquireTake(t) /\ UNCHANGED <<hist, tracking>>
    \/ \E t \in Threads : AvailableTokensLock(t) /\ UNCHANGED <<hist, tracking>>
    \/ \E t \in Threads : AvailableTokensBody(t) /\ UNCHANGED <<hist, tracking>>
    \/ TickExact /\ UNCHANGED <<hist, tracking>>

SpecTimed == Init /\ [][NextTimed]_vars

----------------------------------------------------------------------------
(* A burst: every thread calls try_acquire() MaxCalls times, and no time
   passes *)

\* thread t has completed one more call when this step returns
Counted(t) ==
    /\ calls' = IF pc'[t] = "idle" THEN [calls EXCEPT ![t] = @ + 1] ELSE calls
    /\ UNCHANGED <<emptied_at, last_seen, ctor_call, held_on_entry, outcome, shadow, tracking>>

NextBurst ==
    \/ \E t \in Threads : calls[t] < MaxCalls /\ TryAcquireLock(t) /\ UNCHANGED <<hist, tracking>>
    \/ \E t \in Threads : TryAcquireBody(t) /\ Counted(t)
    \/ \E t \in Threads : TryAcquireTake(t) /\ Counted(t)

SpecBurst == Init /\ [][NextBurst]_vars

RECURSIVE SumCalls(_)
SumCalls(ts) ==
    IF ts = {} THEN 0
    ELSE LET t == CHOOSE x \in ts : TRUE IN calls[t] + SumCalls(ts \ {t})

BurstDone == \A t \in Threads : calls[t] = MaxCalls

----------------------------------------------------------------------------
(* Sequential calls: one thread calls acquire() or enters the context
   manager again and again, each call right after the other; time passes
   only in its sleeps, which are exact *)

Caller == CHOOSE t \in Threads : TRUE

\* time.sleep(sleep_time) of the one caller, tick by tick
TickWaiting ==
    /\ now < MaxWait
    /\ pc[Caller] = "acquire_sleep"
    /\ now < wake_at[Caller]
    /\ now' = now + 1
    /\ UNCHANGED <<bucket, lock, pc, op, locals, granted>>

NextSequential ==
    \/ CallAcquire(Caller, None) /\ UNCHANGED <<hist, tracking>>
    \/ CallEnter(Caller) /\ UNCHANGED <<hist, tracking>>
    \/ AcquireLock(Caller) /\ UNCHANGED <<hist, tracking>>
    \/ AcquireLoop(Caller) /\ UNCHANGED <<hist, tracking>>
    \/ AcquireTake(Caller) /\ UNCHANGED <<hist, tracking>>
    \/ AcquireWake(Caller) /\ UNCHANGED <<hist, tracking>>
    \/ \E raised \in BOOLEAN : Exit(Caller, raised) /\ UNCHANGED <<hist, tracking>>
    \/ TickWaiting /\ UNCHANGED <<hist, tracking>>

SpecSequential == Init /\ [][NextSequential]_vars

----------------------------------------------------------------------------
(* Workers: every thread enters the context manager MaxCalls times, one
   entry after the other, under fair scheduling: a thread that can take a
   step takes it before the clock moves, and the clock moves while all that
   is left to do is to sleep *)

\* thread t has entries left to make
HasWork(t) == pc[t] = "idle" /\ calls[t] < MaxCalls /\ granted < MaxGrants

\* time enough for every grant the workers can ask for (MaxGrants, and one
\* more for each thread already waiting then) at the slowest rate of the
\* model that fills a token, one a second, each found at a poll
FairHorizon == (MaxGrants + NumThreads) * (OneSecond + PollCeiling)

TickFair ==
    /\ now < FairHorizon
    /\ \E t \in Threads : pc[t] = "acquire_sleep"
    /\ \A t \in Threads : ~Running(t) /\ ~Due(t) /\ ~HasWork(t) /\ pc[t] # "body"
    /\ now' = now + 1
    /\ UNCHANGED <<bucket, lock, pc, op, locals, granted>>

\* worker t has completed one more entry
Entered(t) ==
    calls' = [calls EXCEPT ![t] = @ + 1] /\ UNCHANGED <<emptied_at, last_seen, ctor_call, held_on_entry, outcome, shadow, tracking>>

\* the steps of worker t
Worker(t) ==
    \/ calls[t] < MaxCalls /\ CallEnter(t) /\ UNCHANGED <<hist, tracking>>
    \/ AcquireLock(t) /\ UNCHANGED <<hist, tracking>>
    \/ AcquireLoop(t) /\ UNCHANGED <<hist, tracking>>
    \/ AcquireTake(t) /\ UNCHANGED <<hist, tracking>>
    \/ AcquireWake(t) /\ UNCHANGED <<hist, tracking>>
    \/ \E raised \in BOOLEAN : Exit(t, raised) /\ Entered(t)

NextFair ==
    \/ \E t \in Threads : calls[t] < MaxCalls /\ CallEnter(t) /\ UNCHANGED <<hist, tracking>>
    \/ \E t \in Threads : AcquireLock(t) /\ UNCHANGED <<hist, tracking>>
    \/ \E t \in Threads : AcquireLoop(t) /\ UNCHANGED <<hist, tracking>>
    \/ \E t \in Threads : AcquireTake(t) /\ UNCHANGED <<hist, tracking>>
    \/ \E t \in Threads : AcquireWake(t) /\ UNCHANGED <<hist, tracking>>
    \/ \E t \in Threads, raised \in BOOLEAN :
          Exit(t, raised) /\ Entered(t)
    \/ TickFair /\ UNCHANGED <<hist, tracking>>

SpecFair ==
    /\ Init
    /\ [][NextFair]_vars
    /\ \A t \in Threads : WF_vars(Worker(t))
    /\ WF_vars(TickFair /\ UNCHANGED <<hist, tracking>>)

\* a thread inside a blocking acquisition that has not returned yet
Blocked(t) ==
    pc[t] \in {"acquire_lock", "acquire_loop", "acquire_take", "acquire_sleep"}

----------------------------------------------------------------------------
(* A drained bucket: try_acquire() calls take the balance to 0 at some
   time; from then on nothing is consumed, the threads only read the
   balance with available_tokens() or fail in try_acquire() *)

\* the grant of this step has emptied the bucket
Emptied ==
    /\ emptied_at' = IF tokens' = 0 THEN Some(now) ELSE emptied_at
    /\ UNCHANGED <<calls, last_seen, ctor_call, held_on_entry, outcome, shadow, tracking>>

NextDrained ==
    \/ \E t \in Threads :
          /\ emptied_at = None \/ ~HasToken(Refilled.tokens)
          /\ TryAcquireLock(t)
          /\ UNCHANGED <<hist, tracking>>
    \/ \E t \in Threads : TryAcquireBody(t) /\ UNCHANGED <<hist, tracking>>
    \/ \E t \in Threads : TryAcquireTake(t) /\ Emptied
    \/ \E t \in Threads : AvailableTokensLock(t) /\ UNCHANGED <<hist, tracking>>
    \/ \E t \in Threads : AvailableTokensBody(t) /\ UNCHANGED <<hist, tracking>>
    \/ Tick /\ UNCHANGED <<hist, tracking>>

SpecDrained == Init /\ [][NextDrained]_vars

----------------------------------------------------------------------------
(* Observed balances: threads call try_acquire() and available_tokens()
   at any time; the last result of available_tokens() is remembered until
   the next grant *)

\* available_tokens() returns self.tokens
Seen == last_seen' = Some(tokens') /\ UNCHANGED <<calls, emptied_at, ctor_call, held_on_entry, outcome, shadow, tracking>>

\* a token was consumed: what was seen before is no longer compared
Consumed == last_seen' = None /\ UNCHANGED <<calls, emptied_at, ctor_call, held_on_entry, outcome, shadow, tracking>>

NextObserved ==
    \/ \E t \in Threads : TryAcquireLock(t) /\ UNCHANGED <<hist, tracking>>
    \/ \E t \in Threads : TryAcquireBody(t) /\ UNCHANGED <<hist, tracking>>
    \/ \E t \in Threads : TryAcquireTake(t) /\ Consumed
    \/ \E t \in Threads : AvailableTokensLock(t) /\ UNCHANGED <<hist, tracking>>
    \/ \E t \in Threads : AvailableTokensBody(t) /\ Seen
    \/ Tick /\ UNCHANGED <<hist, tracking>>

SpecObserved == Init /\ [][NextObserved]_vars

----------------------------------------------------------------------------
(* Construction: one call RateLimiter(...) with keyword arguments of
   every shape, valid or not, and then reads of the bucket it built *)

\* the keyword parameters of __init__
Parameters ==
    {"max_calls_per_second", "limit", "period", "track_calls",
     "history_window_seconds"}

\* the keywords a caller passes: those of the four that are not None
Kw(m, l, p, i) ==
    LET a == [max_calls_per_second |-> m, limit |-> l, period |-> p,
              initial_tokens |-> i]
    IN [k \in {n \in DOMAIN a : a[n] # None} |-> a[k][1]]

\* argument values: rates in units per tick, counts in calls, periods in
\* ticks, initial token counts in tokens
RateArgs == {None, Some(0 - 1), Some(0), Some(1), Some(3)}
LimitArgs == {None, Some(0 - 1), Some(0), Some(1), Some(2), Some(10)}
PeriodArgs == {None, Some(0 - PollCeiling), Some(0), Some(PollCeiling), Some(OneSecond)}
InitialArgs == {None, Some(0), Some(1)}

KwArgs ==
    {Kw(m, l, p, i) : m \in RateArgs, l \in LimitArgs, p \in PeriodArgs,
                      i \in InitialArgs}

\* the argument __init__ sees for parameter k: what was passed, or its
\* default None
Arg(kw, k) == IF k \in DOMAIN kw THEN Some(kw[k]) ELSE None

\* the call RateLimiter(kw): a keyword that is no parameter of __init__
\* is a TypeError, before __init__ runs
RateLimiterCall(kw) ==
    IF \E k \in DOMAIN kw : k \notin Parameters
    THEN [ok |-> FALSE, error |-> "TypeError: unexpected keyword argument"]
    ELSE RateLimiterInit(Arg(kw, "max_calls_per_second"), Arg(kw, "limit"),
                         Arg(kw, "period"))

\* no limiter yet
InitConstruct ==
    /\ max_calls_per_second = None
    /\ bucket_size = None
    /\ tokens = None
    /\ last_refill = None
    /\ now = 0
    /\ lock = [owner |-> 0, count |-> 0]
    /\ pc = [t \in Threads |-> "idle"]
    /\ op = [t \in Threads |-> "none"]
    /\ start_time = [t \in Threads |-> 0]
    /\ timeout = [t \in Threads |-> None]
    /\ wake_at = [t \in Threads |-> 0]
    /\ granted = 0
    /\ calls = [t \in Threads |-> 0]
    /\ emptied_at = None
    /\ last_seen = None
    /\ ctor_call = None
    /\ held_on_entry = [t \in Threads |-> 0]
    /\ outcome = None
    /\ shadow = None
    /\ track_calls = FALSE
    /\ history_window = DefaultHistoryWindow
    /\ call_count = 0
    /\ timestamps = << >>
    /\ delays = << >>
    /\ tracking_start_time = None
    /\ last_call_time = None
    /\ count_read = [t \in Threads |-> 0]

\* limiter = RateLimiter(kw): the bucket, or the exception and no bucket
Construct(kw) ==
    /\ ctor_call = None
    /\ LET limiter == RateLimiterCall(kw)
       IN /\ ctor_call' = [args |-> kw,
                           raised |-> IF limiter.ok THEN None ELSE Some(limiter.error)]
          /\ IF limiter.ok
             THEN /\ max_calls_per_second' = limiter.max_calls_per_second
                  /\ bucket_size' = limiter.bucket_size
                  /\ tokens' = limiter.tokens
                  /\ last_refill' = now
             ELSE UNCHANGED bucket
    /\ UNCHANGED <<lock, now, pc, op, locals, granted, calls, emptied_at, last_seen,
                   held_on_entry, outcome, shadow, tracking>>

\* a limiter was built
Constructed == ctor_call # None /\ ctor_call.raised = None

NextConstruct ==
    \/ \E kw \in KwArgs : Construct(kw)
    \/ \E t \in Threads : Constructed /\ AvailableTokensLock(t) /\ UNCHANGED <<hist, tracking>>
    \/ \E t \in Threads : Constructed /\ AvailableTokensBody(t) /\ UNCHANGED <<hist, tracking>>

SpecConstruct == InitConstruct /\ [][NextConstruct]_vars

----------------------------------------------------------------------------
(* Call tracking *)

\* [ts for ts in self._timestamps if ts >= cutoff_time]
Retained(ts, cutoff_time) == SelectSeq(ts, LAMBDA x : x >= cutoff_time)

RECURSIVE SumSeq(_)
\* sum(self._delays)
SumSeq(q) == IF q = << >> THEN 0 ELSE Head(q) + SumSeq(Tail(q))

RECURSIVE MaxSeq(_)
\* max(self._delays)
MaxSeq(q) ==
    IF Len(q) = 1 THEN Head(q)
    ELSE LET m == MaxSeq(Tail(q)) IN IF Head(q) >= m THEN Head(q) ELSE m

\* __enter__: "with self.lock" of the tracking block, and the read of
\* self._call_count by its += 1
EnterTrackLock(t) ==
    /\ pc[t] = "enter_track_lock"
    /\ LockFree(t)
    /\ lock' = LockAcquire(t)
    /\ count_read' = [count_read EXCEPT ![t] = call_count]
    /\ pc' = [pc EXCEPT ![t] = "enter_track_body"]
    /\ UNCHANGED <<bucket, now, op, locals, granted, track_calls, history_window,
                   call_count, timestamps, delays, tracking_start_time,
                   last_call_time>>

\* mutant: the call count is taken from the retained timestamps
EnterTrackBodyCountsRetained(t) ==
    /\ pc[t] = "enter_track_body"
    /\ LET delay == now - start_time[t]
           cutoff_time == now - history_window
       IN /\ timestamps' = Retained(Append(timestamps, now), cutoff_time)
          /\ call_count' = Len(timestamps')
          /\ delays' = Append(delays, delay)
          /\ last_call_time' = Some(now)
    /\ count_read' = [count_read EXCEPT ![t] = 0]
    /\ lock' = LockRelease(t)
    /\ pc' = [pc EXCEPT ![t] = "body"]
    /\ start_time' = [start_time EXCEPT ![t] = 0]
    /\ UNCHANGED <<bucket, now, op, timeout, wake_at, granted, track_calls,
                   history_window, tracking_start_time>>

\* __enter__: the tracking block under the lock, then return self
EnterTrackBody(t) ==
    /\ pc[t] = "enter_track_body"
    /\ LET delay == now - start_time[t]
           cutoff_time == now - history_window
       IN /\ call_count' = count_read[t] + 1
          /\ timestamps' = Retained(Append(timestamps, now), cutoff_time)
          /\ delays' = Append(delays, delay)
          /\ last_call_time' = Some(now)
    /\ count_read' = [count_read EXCEPT ![t] = 0]
    /\ lock' = LockRelease(t)
    /\ pc' = [pc EXCEPT ![t] = "body"]
    /\ start_time' = [start_time EXCEPT ![t] = 0]
    /\ UNCHANGED <<bucket, now, op, timeout, wake_at, granted, track_calls,
                   history_window, tracking_start_time>>

\* a quotient of two floats, kept as numerator and denominator
Frac(n, d) == [num |-> n, den |-> d]

\* min(efficiency, 100.0)
AtMostHundred(f) == IF f.num > 100 * f.den THEN Frac(100, 1) ELSE f

\* the window_seconds a caller passes
Windows == {0, 1}

\* what an accessor returned, or the ValueError it raised
Returned(name, v) == Some([op |-> name, raised |-> "", value |-> v])
Raised(name, msg) == Some([op |-> name, raised |-> msg, value |-> None])

\* "with self.lock: ..." entered and left again: the lock after the block
WithLock(t) ==
    LET held == LockAcquire(t)
    IN IF held.count = 1 THEN [owner |-> 0, count |-> 0]
       ELSE [owner |-> held.owner, count |-> held.count - 1]

\* sum(1 for timestamp in self._timestamps if timestamp >= cutoff_time)
CallsInWindow(ts, window_seconds, clock) ==
    LET cutoff_time == clock - window_seconds * OneSecond
    IN Len(SelectSeq(ts, LAMBDA x : x >= cutoff_time))

\* the value get_efficiency returns: calls_in_period / max_possible_calls
\* * 100.0, or 0.0; a quotient by inf is 0.0
GetEfficiency(ts, rate, window_seconds, clock) ==
    LET calls_in_period == CallsInWindow(ts, window_seconds, clock)
    IN IF rate = Inf THEN Frac(0, 1)
       ELSE IF rate * window_seconds * OneSecond > 0
       THEN Frac(calls_in_period * 100 * ONE, rate * window_seconds * OneSecond)
       ELSE Frac(0, 1)

\* the CallStats that stats returns
Stats ==
    IF call_count = 0
    THEN [total_calls |-> 0, total_delay_seconds |-> 0,
          average_delay_seconds |-> Frac(0, 1), max_delay_seconds |-> 0,
          calls_per_second_average |-> Frac(0, 1),
          efficiency_percentage |-> Frac(0, 1),
          tracking_start_time |-> tracking_start_time,
          last_call_time |-> None]
    ELSE LET total_delay == SumSeq(delays)
             avg_delay == IF delays # << >> THEN Frac(total_delay, Len(delays))
                          ELSE Frac(0, 1)
             max_delay == IF delays # << >> THEN MaxSeq(delays) ELSE 0
             elapsed_time == now - tracking_start_time[1]
             calls_per_second == IF elapsed_time > 0
                                 THEN Frac(call_count * OneSecond, elapsed_time)
                                 ELSE Frac(0, 1)
             efficiency ==
                 IF max_calls_per_second = Inf \/ elapsed_time <= 0
                 THEN Frac(0, 1)
                 ELSE Frac(call_count * ONE * 100,
                           elapsed_time * max_calls_per_second)
         IN [total_calls |-> call_count, total_delay_seconds |-> total_delay,
             average_delay_seconds |-> avg_delay, max_delay_seconds |-> max_delay,
             calls_per_second_average |-> calls_per_second,
             efficiency_percentage |-> AtMostHundred(efficiency),
             tracking_start_time |-> tracking_start_time,
             last_call_time |-> last_call_time]

\* mutant: an accessor answers whether or not the calls are tracked
AccessorUnguarded(t, name, invalid, v) ==
    /\ pc[t] = "idle"
    /\ IF invalid
       THEN outcome' = Raised(name, "window_seconds must be positive")
       ELSE /\ LockFree(t)
            /\ outcome' = Returned(name, v)
    /\ lock' = IF ~invalid THEN WithLock(t) ELSE lock
    /\ UNCHANGED <<bucket, now, pc, op, locals, granted, tracking>>

\* an accessor that reads and changes nothing: its guard clauses, then
\* the value computed under the lock
Accessor(t, name, invalid, v) ==
    /\ pc[t] = "idle"
    /\ IF ~track_calls
       THEN outcome' = Raised(name, "Call tracking is not enabled")
       ELSE IF invalid
       THEN outcome' = Raised(name, "window_seconds must be positive")
       ELSE /\ LockFree(t)
            /\ outcome' = Returned(name, v)
    /\ lock' = IF track_calls /\ ~invalid THEN WithLock(t) ELSE lock
    /\ UNCHANGED <<bucket, now, pc, op, locals, granted, tracking>>

\* the property call_count
CallCount(t) == Accessor(t, "call_count", FALSE, call_count)

\* the property stats
CallStats(t) == Accessor(t, "stats", FALSE, Stats)

\* calls_in_window(window_seconds)
CallsInWindowCall(t, w) ==
    Accessor(t, "calls_in_window", w <= 0, CallsInWindow(timestamps, w, now))

\* get_efficiency(window_seconds)
GetEfficiencyCall(t, w) ==
    Accessor(t, "get_efficiency", w <= 0,
             GetEfficiency(timestamps, max_calls_per_second, w, now))

\* mutant: reset_call_count also fills the bucket again
ResetCallCountRefills(t) ==
    /\ pc[t] = "idle"
    /\ track_calls
    /\ LockFree(t)
    /\ outcome' = Returned("reset_call_count", None)
    /\ lock' = WithLock(t)
    /\ call_count' = 0
    /\ timestamps' = << >>
    /\ delays' = << >>
    /\ tracking_start_time' = Some(now)
    /\ last_call_time' = None
    /\ tokens' = bucket_size
    /\ last_refill' = now
    /\ UNCHANGED <<max_calls_per_second, bucket_size, now, pc, op, locals,
                   granted, track_calls, history_window, count_read>>

\* reset_call_count()
ResetCallCount(t) ==
    /\ pc[t] = "idle"
    /\ IF ~track_calls
       THEN /\ outcome' = Raised("reset_call_count", "Call tracking is not enabled")
            /\ UNCHANGED <<lock, tracking>>
       ELSE /\ LockFree(t)
            /\ outcome' = Returned("reset_call_count", None)
            /\ lock' = WithLock(t)
            /\ call_count' = 0
            /\ timestamps' = << >>
            /\ delays' = << >>
            /\ tracking_start_time' = Some(now)
            /\ last_call_time' = None
            /\ UNCHANGED <<track_calls, history_window, count_read>>
    /\ UNCHANGED <<bucket, now, pc, op, locals, granted>>

----------------------------------------------------------------------------
(* A limiter with or without call tracking, used through every operation,
   beside the same bucket without tracking *)

\* a period longer than the windows the callers ask about
LongPeriod == 2 * OneSecond

\* history_window_seconds as passed: a window that passes within the run,
\* and the default
HistoryWindows == {PollCeiling, DefaultHistoryWindow}

\* a bucket of two tokens a period, one of one token a tenth of a second,
\* and unlimited()
TrackedLimiters ==
    {RateLimiterInit(None, Some(2), Some(LongPeriod)),
     RateLimiterInit(None, Some(1), Some(PollCeiling)), unlimited}

InitTracking ==
    /\ \E limiter \in TrackedLimiters :
          /\ limiter.ok
          /\ max_calls_per_second = limiter.max_calls_per_second
          /\ bucket_size = limiter.bucket_size
          /\ tokens = limiter.tokens
    /\ last_refill = 0
    /\ now = 0
    /\ lock = [owner |-> 0, count |-> 0]
    /\ pc = [t \in Threads |-> "idle"]
    /\ op = [t \in Threads |-> "none"]
    /\ start_time = [t \in Threads |-> 0]
    /\ timeout = [t \in Threads |-> None]
    /\ wake_at = [t \in Threads |-> 0]
    /\ granted = 0
    /\ calls = [t \in Threads |-> 0]
    /\ emptied_at = None
    /\ last_seen = None
    /\ ctor_call = None
    /\ held_on_entry = [t \in Threads |-> 0]
    /\ outcome = None
    /\ shadow = [tokens |-> tokens, last_refill |-> last_refill]
    /\ track_calls \in BOOLEAN
    /\ history_window \in IF track_calls THEN HistoryWindows ELSE {DefaultHistoryWindow}
    /\ call_count = 0
    /\ timestamps = << >>
    /\ delays = << >>
    /\ tracking_start_time = IF track_calls THEN Some(0) ELSE None
    /\ last_call_time = None
    /\ count_read = [t \in Threads |-> 0]

\* the step is no accessor, and no scenario of another section
Quiet == outcome' = None /\ UNCHANGED <<emptied_at, last_seen, ctor_call, held_on_entry>>

\* the same bucket without tracking: it refills when this one does
TwinRefill ==
    shadow' = RefillTokens(shadow.tokens, shadow.last_refill,
                           max_calls_per_second, bucket_size, now)

\* the same bucket without tracking: it gives a token when this one does
TwinTake == shadow' = [shadow EXCEPT !.tokens = TakeToken(@)]

\* one more entry of the context manager has completed
EntryCompleted(t) == calls' = [calls EXCEPT ![t] = @ + 1]

\* the entries are counted from the last reset
EntriesReset ==
    calls' = IF track_calls THEN [t \in Threads |-> 0] ELSE calls

\* entries of the context manager, the accessors and reset_call_count
NextTracking ==
    \/ \E t \in Threads : CallEnter(t) /\ Quiet /\ UNCHANGED <<calls, shadow, tracking>>
    \/ \E t \in Threads : AcquireLock(t) /\ Quiet /\ UNCHANGED <<calls, shadow, tracking>>
    \/ \E t \in Threads : AcquireLoop(t) /\ Quiet /\ TwinRefill /\ UNCHANGED <<calls, tracking>>
    \/ \E t \in Threads : AcquireTake(t) /\ Quiet /\ TwinTake /\ UNCHANGED <<calls, tracking>>
    \/ \E t \in Threads : AcquireWake(t) /\ Quiet /\ UNCHANGED <<calls, shadow, tracking>>
    \/ \E t \in Threads : EnterTrackLock(t) /\ Quiet /\ UNCHANGED <<calls, shadow>>
    \/ \E t \in Threads : EnterTrackBody(t) /\ Quiet /\ UNCHANGED <<calls, shadow>>
    \/ \E t \in Threads, raised \in BOOLEAN : Exit(t, raised) /\ Quiet /\ UNCHANGED <<calls, shadow, tracking>>
    \/ \E t \in Threads : CallCount(t) /\ UNCHANGED <<calls, emptied_at, last_seen, ctor_call, held_on_entry, shadow>>
    \/ \E t \in Threads : CallStats(t) /\ UNCHANGED <<calls, emptied_at, last_seen, ctor_call, held_on_entry, shadow>>
    \/ \E t \in Threads, w \in Windows : CallsInWindowCall(t, w) /\ UNCHANGED <<calls, emptied_at, last_seen, ctor_call, held_on_entry, shadow>>
    \/ \E t \in Threads, w \in Windows : GetEfficiencyCall(t, w) /\ UNCHANGED <<calls, emptied_at, last_seen, ctor_call, held_on_entry, shadow>>
    \/ \E t \in Threads : ResetCallCount(t) /\ UNCHANGED <<calls, emptied_at, last_seen, ctor_call, held_on_entry, shadow>>
    \/ Tick /\ Quiet /\ UNCHANGED <<calls, shadow, tracking>>

SpecTracking == InitTracking /\ [][NextTracking]_vars

\* every operation on the bucket, entries and reset_call_count, beside the
\* same bucket without tracking
NextTwin ==
    \/ \E t \in Threads : CallAcquire(t, None) /\ Quiet /\ UNCHANGED <<calls, shadow, tracking>>
    \/ \E t \in Threads : CallEnter(t) /\ Quiet /\ UNCHANGED <<calls, shadow, tracking>>
    \/ \E t \in Threads : AcquireLock(t) /\ Quiet /\ UNCHANGED <<calls, shadow, tracking>>
    \/ \E t \in Threads : AcquireLoop(t) /\ Quiet /\ TwinRefill /\ UNCHANGED <<calls, tracking>>
    \/ \E t \in Threads : AcquireTake(t) /\ Quiet /\ TwinTake /\ (IF op[t] = "enter" /\ ~track_calls THEN EntryCompleted(t) ELSE UNCHANGED calls) /\ UNCHANGED tracking
    \/ \E t \in Threads : AcquireWake(t) /\ Quiet /\ UNCHANGED <<calls, shadow, tracking>>
    \/ \E t \in Threads : EnterTrackLock(t) /\ Quiet /\ UNCHANGED <<calls, shadow>>
    \/ \E t \in Threads : EnterTrackBody(t) /\ Quiet /\ EntryCompleted(t) /\ UNCHANGED shadow
    \/ \E t \in Threads, raised \in BOOLEAN : Exit(t, raised) /\ Quiet /\ UNCHANGED <<calls, shadow, tracking>>
    \/ \E t \in Threads : TryAcquireLock(t) /\ Quiet /\ UNCHANGED <<calls, shadow, tracking>>
    \/ \E t \in Threads : TryAcquireBody(t) /\ Quiet /\ TwinRefill /\ UNCHANGED <<calls, tracking>>
    \/ \E t \in Threads : TryAcquireTake(t) /\ Quiet /\ TwinTake /\ UNCHANGED <<calls, tracking>>
    \/ \E t \in Threads : AvailableTokensLock(t) /\ Quiet /\ UNCHANGED <<calls, shadow, tracking>>
    \/ \E t \in Threads : AvailableTokensBody(t) /\ Quiet /\ TwinRefill /\ UNCHANGED <<calls, tracking>>
    \/ \E t \in Threads : ResetCallCount(t) /\ EntriesReset /\ UNCHANGED <<emptied_at, last_seen, ctor_call, held_on_entry, shadow>>
    \/ Tick /\ Quiet /\ UNCHANGED <<calls, shadow, tracking>>

SpecTwin == InitTracking /\ [][NextTwin]_vars

----------------------------------------------------------------------------
(* A wall clock that is set: time.time() may read earlier than it read
   before *)

\* the clock is set to any reading, earlier or later, while no thread is
\* computing
ClockSet(c) ==
    /\ c # now
    /\ \A t \in Threads : ~Running(t)
    /\ now' = c
    /\ UNCHANGED <<bucket, lock, pc, op, locals, granted>>

NextClock ==
    \/ \E t \in Threads : TryAcquireLock(t) /\ UNCHANGED <<hist, tracking>>
    \/ \E t \in Threads : TryAcquireBody(t) /\ UNCHANGED <<hist, tracking>>
    \/ \E t \in Threads : TryAcquireTake(t) /\ UNCHANGED <<hist, tracking>>
    \/ \E t \in Threads : AvailableTokensLock(t) /\ UNCHANGED <<hist, tracking>>
    \/ \E t \in Threads : AvailableTokensBody(t) /\ UNCHANGED <<hist, tracking>>
    \/ \E c \in 0..MaxTime : ClockSet(c) /\ UNCHANGED <<hist, tracking>>

SpecClock == Init /\ [][NextClock]_vars

\* thread t is about to call self._refill_tokens()
Refilling(t) ==
    pc[t] \in {"acquire_loop", "try_acquire_body", "available_tokens_body"}

----------------------------------------------------------------------------
(* Callers that take the public lock attribute themselves: "with
   limiter.lock:" around their calls *)

\* how often thread t holds the lock l
HoldCount(l, t) == IF l.owner = t THEN l.count ELSE 0

\* a caller enters "with limiter.lock:"
HoldLock(t) ==
    /\ pc[t] = "idle"
    /\ LockFree(t)
    /\ HoldCount(lock, t) < MaxHold
    /\ lock' = LockAcquire(t)
    /\ UNCHANGED <<bucket, now, pc, op, locals, granted>>

\* a caller leaves "with limiter.lock:"
DropLock(t) ==
    /\ pc[t] = "idle"
    /\ lock.owner = t
    /\ lock' = LockRelease(t)
    /\ UNCHANGED <<bucket, now, pc, op, locals, granted>>

\* thread t enters a call in this step, holding the lock as often as it does
Entry(t) ==
    /\ held_on_entry' = [held_on_entry EXCEPT ![t] = HoldCount(lock, t)]
    /\ UNCHANGED <<calls, emptied_at, last_seen, ctor_call, outcome, shadow>>

NextReentrant ==
    \/ \E t \in Threads : HoldLock(t) /\ UNCHANGED <<hist, tracking>>
    \/ \E t \in Threads : DropLock(t) /\ UNCHANGED <<hist, tracking>>
    \/ \E t \in Threads, to \in Timeouts : CallAcquire(t, to) /\ Entry(t) /\ UNCHANGED tracking
    \/ \E t \in Threads : CallEnter(t) /\ Entry(t) /\ UNCHANGED tracking
    \/ \E t \in Threads : AcquireLock(t) /\ UNCHANGED <<hist, tracking>>
    \/ \E t \in Threads : AcquireLoop(t) /\ UNCHANGED <<hist, tracking>>
    \/ \E t \in Threads : AcquireTake(t) /\ UNCHANGED <<hist, tracking>>
    \/ \E t \in Threads : AcquireWake(t) /\ UNCHANGED <<hist, tracking>>
    \/ \E t \in Threads, raised \in BOOLEAN : Exit(t, raised) /\ UNCHANGED <<hist, tracking>>
    \/ \E t \in Threads : TryAcquireLock(t) /\ Entry(t) /\ UNCHANGED tracking
    \/ \E t \in Threads : TryAcquireBody(t) /\ UNCHANGED <<hist, tracking>>
    \/ \E t \in Threads : TryAcquireTake(t) /\ UNCHANGED <<hist, tracking>>
    \/ \E t \in Threads : AvailableTokensLock(t) /\ Entry(t) /\ UNCHANGED tracking
    \/ \E t \in Threads : AvailableTokensBody(t) /\ UNCHANGED <<hist, tracking>>
    \/ Tick /\ UNCHANGED <<hist, tracking>>

SpecReentrant == Init /\ [][NextReentrant]_vars

----------------------------------------------------------------------------
(* acquire with a timeout that has run out when the call starts, beside
   try_acquire *)

\* the timeouts of the callers: those of the other sections, and a
\* negative one
NoWaitTimeouts == Timeouts \cup {Some(-1)}

NextNoWait ==
    \/ \E t \in Threads, to \in NoWaitTimeouts : CallAcquire(t, to) /\ UNCHANGED <<hist, tracking>>
    \/ \E t \in Threads : AcquireLock(t) /\ UNCHANGED <<hist, tracking>>
    \/ \E t \in Threads : AcquireLoop(t) /\ UNCHANGED <<hist, tracking>>
    \/ \E t \in Threads : AcquireTake(t) /\ UNCHANGED <<hist, tracking>>
    \/ \E t \in Threads : AcquireWake(t) /\ UNCHANGED <<hist, tracking>>
    \/ \E t \in Threads : TryAcquireLock(t) /\ UNCHANGED <<hist, tracking>>
    \/ \E t \in Threads : TryAcquireBody(t) /\ UNCHANGED <<hist, tracking>>
    \/ \E t \in Threads : TryAcquireTake(t) /\ UNCHANGED <<hist, tracking>>
    \/ Tick /\ UNCHANGED <<hist, tracking>>

SpecNoWait == Init /\ [][NextNoWait]_vars

\* thread t is in acquire(timeout) with timeout <= 0
NoWait(t) == op[t] = "acquire" /\ timeout[t] # None /\ timeout[t][1] <= 0

----------------------------------------------------------------------------
(* The claims *)

\* C1: in every reachable state 0 <= tokens <= bucket_size, whatever the
\* calls, their interleaving and the time that passed.
C1_TokensInRange == FGe(tokens, 0) /\ FGe(bucket_size, tokens)

\* C1 witness: a finite bucket that was drawn from and is full again
C1_Witness ==
    /\ IsFinite(bucket_size)
    /\ granted > 0
    /\ last_refill > 0
    /\ tokens = bucket_size

\* C2: for a finite bucket that starts full, the number of grants up to
\* time T (now, with construction at time 0) never exceeds
\* capacity + rate * T.
C2_GrantsBounded ==
    IsFinite(bucket_size) =>
        granted * ONE <= bucket_size + max_calls_per_second * now

\* C2 witness: more grants than the capacity, all of them paid for by time
C2_Witness ==
    /\ IsFinite(bucket_size)
    /\ granted * ONE > bucket_size
    /\ granted * ONE = bucket_size + max_calls_per_second * now

\* the step by which a call of thread t returns False / True
ReturnsFalse(t) == pc[t] \in {"acquire_loop", "try_acquire_body"} /\ pc'[t] = "idle"
ReturnsTrue(t) ==
    pc[t] \in {"acquire_take", "try_acquire_take"} /\ pc'[t] \in {"idle", "body"}

C4_ExactlyC ==
    (IsFinite(bucket_size) /\ SumCalls(Threads) > granted)
        => granted * ONE = bucket_size

\* C4 as amended: of the first k try_acquire() calls on a full bucket of
\* finite capacity C, with no time passing, min(k, floor(C)) return True:
\* the first floor(C) calls succeed and every later one fails.
C4_BurstFloor ==
    IsFinite(bucket_size) =>
        LET floorC == bucket_size \div ONE
            k == SumCalls(Threads)
        IN granted = IF k < floorC THEN k ELSE floorC

\* C4 witness: a bucket of 1.5 tokens that granted one call and refused one
C4_Witness ==
    /\ IsFinite(bucket_size)
    /\ bucket_size % ONE # 0
    /\ granted = 1
    /\ SumCalls(Threads) > granted

\* C5 as claimed: acquire() without a timeout eventually returns True.  A
\* caller asleep in it must then have a token within reach: the balance
\* holds one already, or is below bucket_size and so still grows with time
\* (a refill never lifts tokens above bucket_size).
C5_AcquireEventuallyGranted ==
    \A t \in Threads :
        (pc[t] = "acquire_sleep" /\ timeout[t] = None)
            => HasToken(tokens) \/ FLess(tokens, bucket_size)

\* C6: acquire(timeout) returns False no earlier than timeout after its
\* start and no later than timeout plus one sleep_time, and it starts no
\* sleep once the timeout has elapsed (sleeps being exact).
C6_TimeoutBound ==
    [][\A t \in Threads :
          /\ (pc[t] = "acquire_loop" /\ pc'[t] = "idle")
                => /\ timeout[t] # None
                   /\ now - start_time[t] >= timeout[t][1]
                   /\ now - start_time[t] <= timeout[t][1] + SleepTime(max_calls_per_second)
          /\ (pc[t] = "acquire_loop" /\ pc'[t] = "acquire_sleep" /\ timeout[t] # None)
                => now - start_time[t] < timeout[t][1]]_vars

\* C6 witness: a caller back from its sleep, its timeout elapsed, no token
\* for it
C6_Witness ==
    \E t \in Threads :
        /\ pc[t] = "acquire_loop"
        /\ timeout[t] # None
        /\ now > start_time[t]
        /\ TimedOut(timeout[t], start_time[t], now)
        /\ ~HasToken(Refilled.tokens)

\* C7: a call that returns False takes nothing (tokens does not go down,
\* no grant is counted), and every step that lowers tokens lowers it by
\* one token and is the return of True to exactly one caller.
C7_FailureTakesNothing ==
    [][/\ \A t \in Threads :
             ReturnsFalse(t) => FGe(tokens', tokens) /\ granted' = granted
       /\ FLess(tokens', tokens)
             => /\ tokens' = FSub(tokens, ONE)
                /\ granted' = granted + 1
                /\ Cardinality({t \in Threads : ReturnsTrue(t)}) = 1]_vars

\* C7 witness: an acquire(timeout) about to return False on a bucket that
\* granted before
C7_Witness ==
    \E t \in Threads :
        /\ pc[t] = "acquire_loop"
        /\ op[t] = "acquire"
        /\ TimedOut(timeout[t], start_time[t], now)
        /\ ~HasToken(Refilled.tokens)
        /\ granted > 0

\* C8 as claimed: a try_acquire() that returns False leaves tokens and
\* last_refill as they were.
C8_FailedTryChangesNothing ==
    [][\A t \in Threads :
          (pc[t] = "try_acquire_body" /\ pc'[t] = "idle")
              => tokens' = tokens /\ last_refill' = last_refill]_vars

\* C8 as amended: a try_acquire() that returns False takes no token but
\* does the refill: when time has passed since the last refill, last_refill
\* becomes the time of the call and tokens becomes
\* min(bucket_size, tokens + elapsed * rate); otherwise both stay.
C8_FailedTryOnlyRefills ==
    [][\A t \in Threads :
          (pc[t] = "try_acquire_body" /\ pc'[t] = "idle")
              => /\ granted' = granted
                 /\ IF now > last_refill
                    THEN /\ last_refill' = now
                         /\ tokens' = FMin(bucket_size,
                                FAdd(tokens, FMul(now - last_refill, max_calls_per_second)))
                    ELSE tokens' = tokens /\ last_refill' = last_refill]_vars

\* C8 witness: a try_acquire() about to return False after a refill that
\* adds to the balance
C8_Witness ==
    \E t \in Threads :
        /\ pc[t] = "try_acquire_body"
        /\ now > last_refill
        /\ FLess(tokens, Refilled.tokens)
        /\ ~HasToken(Refilled.tokens)

\* C9: a thread asleep in acquire() does not own the lock, so that the
\* calls of other threads can take it, and a thread in the loop of
\* acquire() (refill, test, decrement) owns it.
C9_SleepsWithoutLock ==
    \A t \in Threads :
        /\ pc[t] = "acquire_sleep" => lock.owner # t
        /\ pc[t] \in {"acquire_loop", "acquire_take"} => lock.owner = t /\ lock.count > 0

\* C10: on the limiter of unlimited(), tokens is +infinity at all times,
\* no call reaches the sleep of acquire() and no call returns False.
C10_Unlimited ==
    /\ max_calls_per_second = Inf => tokens = Inf
    /\ [][max_calls_per_second = Inf
             => /\ tokens' = Inf
                /\ \A t \in Threads : pc'[t] # "acquire_sleep" /\ ~ReturnsFalse(t)]_vars

\* C10 witness: an unlimited limiter that granted calls and refilled
\* after time had passed
C10_Witness ==
    /\ max_calls_per_second = Inf
    /\ tokens = Inf
    /\ granted >= 2
    /\ last_refill > 0

\* C11: a context-manager entry is an acquire() without timeout: it never
\* returns False, and the step that enters the body takes exactly one
\* token; __exit__, after a normal end of the body or an exception, leaves
\* tokens and last_refill (and the rest of the bucket) as they were.
C11_EnterTakesExitKeeps ==
    [][\A t \in Threads :
          /\ op[t] = "enter" => timeout[t] = None /\ ~ReturnsFalse(t)
          /\ (op[t] = "enter" /\ pc[t] # "body" /\ pc'[t] = "body")
                => /\ pc[t] = "acquire_take"
                   /\ tokens' = FSub(tokens, ONE)
                   /\ granted' = granted + 1
          /\ (pc[t] = "body" /\ pc'[t] # "body")
                => /\ pc'[t] = "idle"
                   /\ bucket' = bucket
                   /\ granted' = granted]_vars

\* C11 witness: a thread in the body of its with statement, its token taken
\* from a bucket that now holds less than one
C11_Witness ==
    \E t \in Threads :
        /\ pc[t] = "body"
        /\ IsFinite(bucket_size)
        /\ granted >= 2
        /\ FLess(tokens, ONE)
        /\ now > 0

C13_AllEntriesReturn ==
    \A t \in Threads : Blocked(t) ~> (pc[t] = "body")

\* C13 as claimed, in the form a finite run refutes: a blocked acquisition
\* that is to return needs a token within reach, so whenever a thread is
\* blocked the balance after a refill is at least 1 or below bucket_size,
\* where time still adds to it.
C13_BlockedCanBeServed ==
    \A t \in Threads :
        Blocked(t) => \/ HasToken(Refilled.tokens)
                      \/ FLess(Refilled.tokens, bucket_size)

\* C13 on the buckets that can hold a token (bucket_size >= 1): there
\* every started acquisition does return.
C13_EveryEntryReturns ==
    \A t \in Threads :
        (Blocked(t) /\ FGe(bucket_size, ONE)) ~> (pc[t] = "body")

\* the horizon of the fair scenario is not what ends the waits
C13_HorizonNotReached ==
    (FGe(bucket_size, ONE) /\ now = FairHorizon) => \A t \in Threads : ~Blocked(t)

\* the case of C13: the capacity is used up and all threads are blocked at
\* once, asleep in their acquisitions
C13_Witness ==
    /\ IsFinite(bucket_size)
    /\ bucket_size >= ONE
    /\ granted * ONE >= bucket_size
    /\ \A t \in Threads : pc[t] = "acquire_sleep" /\ op[t] = "enter"

\* C14: once the balance was taken to 0 at time t0 and nothing is consumed
\* afterwards, available_tokens() at t0 + T returns
\* min(bucket_size, rate * T), whatever refills (available_tokens, failed
\* try_acquire) happened in between; between the calls the stored balance
\* is that value for the time of the last refill.
C14_RefillClosedForm ==
    /\ [](emptied_at # None
            => tokens = FMin(bucket_size,
                             max_calls_per_second * (last_refill - emptied_at[1])))
    /\ [][\A t \in Threads :
             (emptied_at # None /\ pc[t] = "available_tokens_body" /\ pc'[t] = "idle")
                 => tokens' = FMin(bucket_size,
                                   max_calls_per_second * (now - emptied_at[1]))]_vars

\* C14 witness: available_tokens() about to return on a bucket emptied
\* earlier and refilled once in between, its balance still below capacity
C14_Witness ==
    \E t \in Threads :
        /\ emptied_at # None
        /\ pc[t] = "available_tokens_body"
        /\ last_refill > emptied_at[1]
        /\ now > last_refill
        /\ max_calls_per_second * (now - emptied_at[1]) < bucket_size

\* C15: between two consecutive grants, each available_tokens() returns at
\* least what the one before it returned, and never more than bucket_size.
C15_SeenNonDecreasing ==
    [][\A t \in Threads :
          (pc[t] = "available_tokens_body" /\ pc'[t] = "idle")
              => /\ FGe(bucket_size, tokens')
                 /\ last_seen # None => FGe(tokens', last_seen[1])]_vars

\* C15 witness: available_tokens() about to return more than it returned
\* before, after a failed try_acquire() refilled in between
C15_Witness ==
    \E t \in Threads :
        /\ pc[t] = "available_tokens_body"
        /\ last_seen # None
        /\ IsFinite(tokens)
        /\ tokens > last_seen[1]
        /\ FLess(tokens, Refilled.tokens)

\* the call passed a call count (and a period, or none) that __init__
\* accepts, and no flat rate
ValidPeriodShape(kw) ==
    /\ "max_calls_per_second" \notin DOMAIN kw
    /\ "limit" \in DOMAIN kw /\ kw["limit"] > 0
    /\ "period" \in DOMAIN kw => kw["period"] > 0

\* C16 as claimed: a construction with a call count and an initial token
\* count k, 0 <= k <= count, builds a bucket with tokens = k and
\* bucket_size = count.
C16_InitialTokens ==
    (/\ ctor_call # None
     /\ ValidPeriodShape(ctor_call.args)
     /\ "initial_tokens" \in DOMAIN ctor_call.args
     /\ ctor_call.args["initial_tokens"] >= 0
     /\ ctor_call.args["initial_tokens"] <= ctor_call.args["limit"])
        => /\ ctor_call.raised = None
           /\ tokens = ctor_call.args["initial_tokens"] * ONE
           /\ bucket_size = ctor_call.args["limit"] * ONE

\* the ValueErrors of __init__
ConfigurationErrors ==
    {"Cannot specify both max_calls_per_second and limit/period",
     "max_calls_per_second must be positive",
     "limit must be positive",
     "period must be positive",
     "Must specify limit when providing period, or use max_calls_per_second"}

\* the call passes a non-positive rate, call count or period, or a flat
\* rate together with a call count or a period
InvalidConfiguration(kw) ==
    \/ "max_calls_per_second" \in DOMAIN kw /\ kw["max_calls_per_second"] <= 0
    \/ "limit" \in DOMAIN kw /\ kw["limit"] <= 0
    \/ "period" \in DOMAIN kw /\ kw["period"] <= 0
    \/ /\ "max_calls_per_second" \in DOMAIN kw
       /\ "limit" \in DOMAIN kw \/ "period" \in DOMAIN kw

\* C17: a construction with a non-positive rate, call count or period, or
\* with a flat rate together with a call count or a period, raises and
\* builds no bucket (nothing is clamped into a valid configuration); when
\* every keyword is a parameter of __init__ the exception is one of its
\* ValueErrors.
C17_InvalidRejected ==
    (ctor_call # None /\ InvalidConfiguration(ctor_call.args))
        => /\ ctor_call.raised # None
           /\ max_calls_per_second = None /\ bucket_size = None /\ tokens = None
           /\ DOMAIN ctor_call.args \subseteq Parameters
                 => ctor_call.raised[1] \in ConfigurationErrors

\* C17 witness: a call count of zero with a valid period was refused
C17_Witness ==
    /\ ctor_call # None
    /\ DOMAIN ctor_call.args = {"limit", "period"}
    /\ ctor_call.args["limit"] = 0
    /\ ctor_call.args["period"] > 0
    /\ ctor_call.raised = Some("limit must be positive")
    /\ tokens = None

C19_FullValidBucket ==
    Constructed
        => LET kw == ctor_call.args
               effective_period == IF "period" \in DOMAIN kw THEN kw["period"] ELSE OneSecond
           IN /\ max_calls_per_second > 0
              /\ bucket_size > 0
              /\ tokens = bucket_size
              /\ "limit" \in DOMAIN kw
                    => /\ max_calls_per_second * effective_period = kw["limit"] * ONE
                       /\ bucket_size = kw["limit"] * ONE
              /\ "max_calls_per_second" \in DOMAIN kw
                    => /\ max_calls_per_second = kw["max_calls_per_second"]
                       /\ bucket_size = kw["max_calls_per_second"] * OneSecond
              /\ DOMAIN kw = {}
                    => /\ max_calls_per_second * OneSecond = ONE
                       /\ bucket_size = ONE

\* C19 witness: two calls per 0.1 s built a bucket of two tokens that
\* refills at twenty a second, and available_tokens() is reading it
C19_Witness ==
    /\ Constructed
    /\ DOMAIN ctor_call.args = {"limit", "period"}
    /\ ctor_call.args["limit"] = 2
    /\ ctor_call.args["period"] = PollCeiling
    /\ tokens = 2 * ONE
    /\ max_calls_per_second = ONE
    /\ \E t \in Threads : pc[t] = "available_tokens_body"

\* C20: acquire keeps no order among its waiters: a caller whose poll
\* finds tokens >= 1 after the refill takes the token, whoever else is
\* blocked and for however long, and only then; so a later waiter can be
\* granted before an earlier one (the witness).
C20_PollDecides ==
    [][\A t \in Threads :
          (pc[t] = "acquire_loop" /\ pc'[t] # "acquire_loop")
              => (HasToken(Refilled.tokens) <=> pc'[t] = "acquire_take")]_vars

\* C20 witness: two threads blocked in acquire(); the one that started
\* waiting later has waited, found the token and is taking it, the one
\* that started earlier is still asleep
C20_Witness ==
    \E t, u \in Threads :
        /\ op[t] = "acquire" /\ op[u] = "acquire"
        /\ pc[t] = "acquire_sleep"
        /\ pc[u] = "acquire_take"
        /\ start_time[t] < start_time[u]
        /\ start_time[u] < now

\* C21: call tracking has no influence on the token accounting: after
\* every step the bucket holds the tokens and the last_refill of the same
\* bucket without tracking that is driven by the same operations at the
\* same clock readings, so acquire, try_acquire and available_tokens
\* decide on, and return, the same balance; reset_call_count and the
\* accessors, which the bucket without tracking refuses, change neither.
C21_TrackingLeavesBucket ==
    tokens = shadow.tokens /\ last_refill = shadow.last_refill

C21_Witness ==
    /\ track_calls
    /\ outcome = Returned("reset_call_count", None)
    /\ tokens # bucket_size
    /\ last_refill > 0

\* the tracking accessors
TrackingAccessors ==
    {"call_count", "stats", "reset_call_count", "calls_in_window",
     "get_efficiency"}

\* C22: on a bucket constructed without tracking, every call of call_count,
\* stats, reset_call_count, calls_in_window and get_efficiency raises
\* "Call tracking is not enabled" in the step of the call, and the step
\* changes neither the bucket nor the tracking fields nor the lock.
C22_AccessorsRefuse ==
    [][(~track_calls /\ outcome' # None) =>
          /\ outcome' \in {Raised(name, "Call tracking is not enabled") :
                             name \in TrackingAccessors}
          /\ UNCHANGED <<bucket, tracking, lock, pc>>]_vars

C22_Witness ==
    /\ ~track_calls
    /\ outcome = Raised("get_efficiency", "Call tracking is not enabled")
    /\ tokens # bucket_size
    /\ lock.owner # 0

\* no thread is inside a call of the limiter
Quiescent == \A t \in Threads : pc[t] \in {"idle", "body"}

\* C23: with tracking enabled and all threads quiescent, call_count is
\* the number of context-manager entries completed since construction or
\* the last reset_call_count, whatever the interleaving of the entries of
\* the threads; calls of acquire() and try_acquire() leave it alone.
C23_CountsEntries ==
    (track_calls /\ Quiescent) => call_count = SumCalls(Threads)

C23_Witness ==
    /\ track_calls
    /\ Quiescent
    /\ call_count = 2
    /\ \A t \in Threads : calls[t] = 1
    /\ granted = 3

\* C24: whatever the state of a limiter that tracks its calls and whatever
\* the positive window_seconds, get_efficiency(window_seconds) returns a
\* percentage from 0.0 to 100.0, also right after a burst of the whole
\* capacity inside a window shorter than the period.
C24_EfficiencyInRange ==
    (outcome # None /\ outcome[1].op = "get_efficiency" /\ outcome[1].raised = "")
        => /\ outcome[1].value.num >= 0
           /\ outcome[1].value.num <= 100 * outcome[1].value.den

\* C25: a refill at a clock reading not later than last_refill, also one
\* after the clock was set back, changes neither tokens nor last_refill;
\* and a second refill at the reading of the first gives the state the
\* first gave.
C25_RefillIdempotent ==
    /\ [][\A t \in Threads :
            (Refilling(t) /\ pc'[t] # pc[t] /\ now <= last_refill)
                => (tokens' = tokens /\ last_refill' = last_refill)]_vars
    /\ [](LET once == Refilled
          IN RefillTokens(once.tokens, once.last_refill, max_calls_per_second,
                          bucket_size, now) = once)

C25_Witness ==
    /\ \E t \in Threads : pc[t] = "try_acquire_take"
    /\ now < last_refill
    /\ tokens # bucket_size

\* thread t starts a sleep of acquire in this step
StartsSleep(t) == pc[t] = "acquire_loop" /\ pc'[t] = "acquire_sleep"

\* C26: each sleep of a waiting acquire() lasts the time the balance it
\* found needs to reach one token, or 100 ms if that is less: the tokens
\* that accrue during the sleep are the tokens missing, or those of 100 ms.
C26_SleepFitsBalance ==
    [][\A t \in Threads :
          StartsSleep(t) =>
              LET missing == ONE - tokens'
                  ceiling == PollCeiling * max_calls_per_second
              IN (wake_at'[t] - now) * max_calls_per_second =
                     IF missing < ceiling THEN missing ELSE ceiling]_vars

\* thread t is inside the section that refills, tests and decrements
InSection(t) ==
    pc[t] \in {"acquire_loop", "acquire_take", "try_acquire_body",
               "try_acquire_take", "available_tokens_body"}

\* C27: a thread inside the refill-check-decrement section of acquire,
\* try_acquire or available_tokens holds the lock, no two threads are
\* inside at once, and every step that changes tokens or last_refill is
\* the step of a thread inside the section, holding the lock.
C27_BucketUnderLock ==
    /\ [](\A t \in Threads :
             InSection(t) =>
                 /\ lock.owner = t /\ lock.count >= 1
                 /\ \A u \in Threads \ {t} : ~InSection(u))
    /\ [][(tokens' # tokens \/ last_refill' # last_refill) =>
             \E t \in Threads :
                 InSection(t) /\ lock.owner = t /\ pc'[t] # pc[t]]_vars

C27_Witness ==
    /\ pc[1] = "acquire_take"
    /\ pc[2] = "acquire_lock"
    /\ op[2] = "enter"
    /\ lock.owner = 1
    /\ tokens # bucket_size
    /\ now > 0

\* the call of thread t returns in this step
Returns(t) == pc[t] \notin {"idle", "body"} /\ pc'[t] \in {"idle", "body"}

\* C28: every call returns with the calling thread holding the lock as
\* often as it held it at entry, on every return path of acquire,
\* try_acquire, available_tokens and the context manager; the hold count
\* never falls below zero and the lock has an owner exactly while it is
\* held.
C28_HoldCountRestored ==
    /\ [][\A t \in Threads :
            Returns(t) => HoldCount(lock', t) = held_on_entry[t]]_vars
    /\ [](lock.count >= 0 /\ (lock.owner = 0 <=> lock.count = 0))

C28_Witness ==
    \E t \in Threads :
        /\ pc[t] = "idle"
        /\ held_on_entry[t] = 1
        /\ HoldCount(lock, t) = 1
        /\ granted >= 2
        /\ now >= PollCeiling
        /\ tokens # bucket_size

\* thread t, in try_acquire or in acquire with timeout <= 0, refills and
\* looks for a token in this step
LooksForToken(t) ==
    /\ \/ pc[t] = "try_acquire_body"
       \/ (pc[t] = "acquire_loop" /\ NoWait(t))
    /\ pc'[t] # pc[t]

\* thread t, in try_acquire or in acquire with timeout <= 0, takes the
\* token it found in this step
TakesToken(t) ==
    /\ \/ pc[t] = "try_acquire_take"
       \/ (pc[t] = "acquire_take" /\ NoWait(t))
    /\ pc'[t] # pc[t]

\* C29: acquire(timeout) with timeout <= 0 does what try_acquire() does:
\* after the refill it goes on to take one token and return True when the
\* balance is at least one token, returns False with the refilled balance
\* otherwise, and never sleeps.
C29_NoWaitIsTry ==
    /\ [][\A t \in Threads :
            /\ LooksForToken(t) =>
                  /\ tokens' = Refilled.tokens
                  /\ last_refill' = Refilled.last_refill
                  /\ IF HasToken(Refilled.tokens)
                     THEN pc'[t] \in {"acquire_take", "try_acquire_take"}
                     ELSE ReturnsFalse(t)
            /\ TakesToken(t) =>
                  /\ tokens' = TakeToken(tokens)
                  /\ last_refill' = last_refill
                  /\ ReturnsTrue(t)]_vars
    /\ [](\A t \in Threads : NoWait(t) => pc[t] # "acquire_sleep")

C29_Witness ==
    \E t \in Threads :
        /\ pc[t] = "acquire_take"
        /\ timeout[t] = Some(-1)
        /\ last_refill > 0
        /\ tokens # bucket_size

\* C30: a thread that held the lock when it called acquire() does not own
\* the lock while it sleeps in acquire, so that the try_acquire() and
\* available_tokens() of other threads can take it.
C30_SleeperFreesLock ==
    \A t \in Threads :
        (pc[t] = "acquire_sleep" /\ held_on_entry[t] >= 1) => lock.owner # t

\* C31: in every quiescent state of a limiter that tracks its calls there
\* are as many recorded delays as call_count says and at most as many
\* retained timestamps; right after reset_call_count the count is zero and
\* both lists are empty; and calls_in_window never returns more than
\* call_count.
C31_TrackingFieldsAgree ==
    track_calls =>
        /\ Quiescent => (Len(delays) = call_count /\ Len(timestamps) <= call_count)
        /\ outcome = Returned("reset_call_count", None) =>
               (call_count = 0 /\ timestamps = << >> /\ delays = << >>)
        /\ (outcome # None /\ outcome[1].op = "calls_in_window"
                /\ outcome[1].raised = "") => outcome[1].value <= call_count

C31_Witness ==
    /\ track_calls
    /\ Quiescent
    /\ call_count = 2
    /\ Len(delays) = 2
    /\ Len(timestamps) = 1
    /\ outcome = Returned("calls_in_window", 1)

====
